---- MODULE Spec2Model ----
(***************************************************************************)
(* A model of the accessibility checker: the Express server of             *)
(* src/unnamed/part_000 (POST /api/test, runAxe, pa11y, the browser of    *)
(* initBrowser, GET /api/groq-key) and the React component of              *)
(* src/src/components/accessibilityAnalyzer.jsx (the scan client, the      *)
(* merge of the two scanners' findings, the AI remediation client and its  *)
(* cache, the audience table).                                             *)
(*                                                                         *)
(* Strings that the code cuts or concatenates (URLs, cache keys, streamed  *)
(* text) are sequences of symbols; a fixed literal of the source is one    *)
(* symbol.  Strings that are only compared are TLA+ strings.               *)
(***************************************************************************)
EXTENDS Integers, Sequences, FiniteSets, TLC

VARIABLES
    url,              \* the form field of the page (useState "url")
    isLoading,        \* useState isLoading
    results,          \* useState results (present = FALSE models null)
    error,            \* useState error ("" = no banner)
    request,          \* the POST /api/test request in flight, if any
    handler,          \* the server handler's position and its req.body
    axeResults,       \* the runAxe(url) task of Promise.allSettled; its outcome
                      \* stays readable until the response is consumed
    pa11yResults,     \* the pa11y(url, ...) task of Promise.allSettled, likewise
    calls,            \* how often the current handler run invoked each scanner
    response,         \* the HTTP response in flight, if any
    groqKey,          \* process.env.GROQ_API_KEY of the server (<<>> = unset)
    solutions,        \* useState solutions: cache key -> text
    loadingSolutions, \* useState loadingSolutions: cache key -> flag
    req,              \* the handleGetSolution call of each clicked target
    lookups,          \* the calls of getTargetAudience the renders made, in order
    browser,          \* the server's module variable browser (0 = undefined)
    launched,         \* how many times puppeteer.launch was called
    scans,            \* the runAxe call of each scan request: position and its
                      \* local const browser
    running,          \* the server process has not exited
    pages             \* the page browser.newPage() made for each run: whose
                      \* browser, and whether open

scanVars == <<url, isLoading, results, error, request, handler,
              axeResults, pa11yResults, calls, response>>

remVars == <<groqKey, solutions, loadingSolutions, req>>

browserVars == <<browser, launched, scans, running, pages>>

vars == <<scanVars, remVars, lookups, browserVars>>

----------------------------------------------------------------------------
(* Bounds of the model *)

MaxA == 2           \* most violations Scanner A reports
MaxB == 2           \* most issues Scanner B reports
MaxChunks == 2      \* most chunks a stream delivers
MaxLookups == 3     \* most renders whose getTargetAudience calls are kept
MaxScans == 2       \* most scan requests the server gets

----------------------------------------------------------------------------
(* Sequences *)

SeqsUpTo(S, n) == UNION {[1..k -> S] : k \in 0..n}

RECURSIVE CountIf(_, _, _)
\* Array.prototype.filter(pred).length for pred = (x[field] = value)
CountIf(s, field, value) ==
    IF s = <<>> THEN 0
    ELSE (IF Head(s)[field] = value THEN 1 ELSE 0) + CountIf(Tail(s), field, value)

----------------------------------------------------------------------------
(* URL strings and the WHATWG parse that new URL(url) performs without a   *)
(* base: the string must open with a scheme, a letter followed by scheme   *)
(* characters up to a ":".  The alphabet has one letter and the colon, so  *)
(* no scheme here is a special one (http, file, ...) that would also need  *)
(* a host.                                                                 *)

UrlAlphabet == {"h", ":"}
\* the URL strings tried: "", "h", ":", "hh", ":h", "h:" and "hh:"
UrlStrings ==
    {<<>>, <<"h">>, <<":">>, <<"h", "h">>, <<":", "h">>, <<"h", ":">>,
     <<"h", "h", ":">>}

IsAlpha(c) == c = "h"
IsSchemeChar(c) == c = "h"

ParsesAsURL(s) ==
    \E i \in 2..Len(s) :
        /\ s[i] = ":"
        /\ IsAlpha(s[1])
        /\ \A j \in 2..(i-1) : IsSchemeChar(s[j])

\* req.body: an object whose url property may be absent
Bodies == [hasUrl : {TRUE}, url : UrlStrings] \cup {[hasUrl |-> FALSE, url |-> <<>>]}

\* JavaScript !url for an absent or string-valued url
Falsy(body) == ~body.hasUrl \/ body.url = <<>>

----------------------------------------------------------------------------
(* Scanner outputs *)

Impacts == {"critical", "serious", "moderate", "minor", "none"}  \* axe impact; "none" = null
IssueTypes == {"error", "warning", "notice", "unknown"}          \* pa11y issue type
Severities == {"critical", "serious", "moderate", "minor"}

Node(target, html) == [target |-> target, html |-> html]

\* the rule axe-core reports at each impact in this model
RuleOf(imp) ==
    CASE imp = "critical" -> "image-alt"
      [] imp = "serious"  -> "color-contrast"
      [] imp = "moderate" -> "heading-order"
      [] imp = "minor"    -> "region"
      [] OTHER            -> "label"

\* a violation record of axe-core
AViolation(imp) ==
    [id |-> RuleOf(imp), description |-> <<"d">>,
     impact |-> imp, nodes |-> <<Node("img", "<img>")>>]

\* the HTML_CodeSniffer code pa11y reports at each issue type in this model
CodeOf(t) ==
    CASE t = "error"   -> "H37"
      [] t = "warning" -> "H67"
      [] t = "notice"  -> "H25"
      [] OTHER         -> "X0"

\* an issue record of pa11y
BIssue(t) ==
    [code |-> CodeOf(t), message |-> <<"m">>,
     type |-> t, selector |-> "#a", context |-> "<img id=a>"]

AViolations == {AViolation(i) : i \in Impacts}
BIssues == {BIssue(t) : t \in IssueTypes}

PassA == [id |-> "html-has-lang", description |-> "html has a lang attribute"]
PassB == [id |-> "H57", description |-> "lang attribute present"]

\* what runAxe resolves with: axe's results object
AxeValues == [violations : SeqsUpTo(AViolations, MaxA), passes : {<<>>, <<PassA>>}]

\* what pa11y resolves with: issues, and (in no released pa11y) passes
Pa11yValues == [issues : SeqsUpTo(BIssues, MaxB), hasPasses : BOOLEAN, passes : {<<PassB>>}]

\* what a scanner rejects with: an Error with or without a message
Reasons == {"net::ERR_FAILED", ""}

NoAxeValue == [violations |-> <<>>, passes |-> <<>>]
NoPa11yValue == [issues |-> <<>>, hasPasses |-> FALSE, passes |-> <<PassB>>]

----------------------------------------------------------------------------
(* Server: POST /api/test *)

IdleTask(none) == [status |-> "idle", value |-> none, reason |-> ""]
Fulfilled(v) == [status |-> "fulfilled", value |-> v, reason |-> ""]
Rejected(none, r) == [status |-> "rejected", value |-> none, reason |-> r]
Settled(task) == task.status \in {"fulfilled", "rejected"}

\* reason?.message || 'Unknown error'
Details(reason) == IF reason = "" THEN "Unknown error" ELSE reason

\* processedResults.axe
ProcessedAxe(task) ==
    IF task.status = "fulfilled"
    THEN [hasError |-> FALSE, error |-> "", details |-> "",
          violations |-> task.value.violations, passes |-> task.value.passes]
    ELSE [hasError |-> TRUE, error |-> "Axe-core test failed",
          details |-> Details(task.reason), violations |-> <<>>, passes |-> <<>>]

\* processedResults.pa11y
ProcessedPa11y(task) ==
    IF task.status = "fulfilled"
    THEN [hasError |-> FALSE, error |-> "", details |-> "",
          issues |-> task.value.issues, hasPasses |-> task.value.hasPasses,
          passes |-> task.value.passes]
    ELSE [hasError |-> TRUE, error |-> "Pa11y test failed",
          details |-> Details(task.reason), issues |-> <<>>, hasPasses |-> TRUE,
          passes |-> <<>>]

\* one line of the summary literal: axe violations of an impact plus pa11y
\* issues of a type, a failed scanner counting 0
SummaryLine(axe, pa11y, impact, type) ==
    (IF axe.hasError THEN 0 ELSE CountIf(axe.violations, "impact", impact))
    + (IF pa11y.hasError THEN 0 ELSE CountIf(pa11y.issues, "type", type))

\* const summary = { critical, serious, moderate }
Summary(axe, pa11y) ==
    [critical |-> SummaryLine(axe, pa11y, "critical", "error"),
     serious  |-> SummaryLine(axe, pa11y, "serious", "warning"),
     moderate |-> SummaryLine(axe, pa11y, "moderate", "notice")]

NoSummary == [critical |-> 0, serious |-> 0, moderate |-> 0]
NoBody == [hasUrl |-> FALSE, url |-> <<>>]
NoRequest == [inFlight |-> FALSE, body |-> NoBody, fromPage |-> FALSE]
NoResponse ==
    [inFlight |-> FALSE, fromPage |-> FALSE, status |-> 0, error |-> "",
     axe |-> ProcessedAxe(Fulfilled(NoAxeValue)),
     pa11y |-> ProcessedPa11y(Fulfilled(NoPa11yValue)),
     summary |-> NoSummary]

\* the handler between requests
IdleHandler == [pc |-> "idle", body |-> NoBody, fromPage |-> FALSE]

\* res.status(code).json({ error })
ErrorResponse(fromPage, code, msg) ==
    [NoResponse EXCEPT !.inFlight = TRUE, !.fromPage = fromPage,
                       !.status = code, !.error = msg]

\* res.json({ ...processedResults, summary })
OkResponse(fromPage, axe, pa11y) ==
    [inFlight |-> TRUE, fromPage |-> fromPage, status |-> 200, error |-> "",
     axe |-> axe, pa11y |-> pa11y, summary |-> Summary(axe, pa11y)]

\* the handler rejects the request: nothing is launched
Reject(code, msg) ==
    /\ response' = ErrorResponse(request.fromPage, code, msg)
    /\ handler' = IdleHandler
    /\ calls' = [axe |-> 0, pa11y |-> 0]
    /\ UNCHANGED <<axeResults, pa11yResults>>

\* Promise.allSettled([runAxe(url), pa11y(url, ...)]): both tasks start
Launch ==
    /\ axeResults' = [IdleTask(NoAxeValue) EXCEPT !.status = "pending"]
    /\ pa11yResults' = [IdleTask(NoPa11yValue) EXCEPT !.status = "pending"]
    /\ calls' = [axe |-> 1, pa11y |-> 1]
    /\ handler' = [pc |-> "awaiting", body |-> request.body,
                   fromPage |-> request.fromPage]
    /\ UNCHANGED response

\* a mutant of ReceiveTest: the format validation is left out
ReceiveTestNoFormatCheck ==
    /\ request.inFlight
    /\ handler.pc = "idle"
    /\ request' = NoRequest
    /\ IF Falsy(request.body) THEN Reject(400, "URL is required") ELSE Launch
    /\ UNCHANGED <<url, isLoading, results, error>>

\* the handler up to its await: validation, then the launch of both scanners
ReceiveTest ==
    /\ request.inFlight
    /\ handler.pc = "idle"
    /\ request' = NoRequest
    /\ IF Falsy(request.body) THEN Reject(400, "URL is required")
       ELSE IF ~ParsesAsURL(request.body.url) THEN Reject(400, "Invalid URL format")
       ELSE Launch
    /\ UNCHANGED <<url, isLoading, results, error>>

\* a mutant of AxeSettles: a rejection of runAxe rejects pa11y as well
AxeSettlesFailsBoth ==
    /\ axeResults.status = "pending"
    /\ \/ /\ \E v \in AxeValues : axeResults' = Fulfilled(v)
          /\ pa11yResults' = pa11yResults
       \/ \E r \in Reasons :
             /\ axeResults' = Rejected(NoAxeValue, r)
             /\ pa11yResults' = Rejected(NoPa11yValue, r)
    /\ UNCHANGED <<url, isLoading, results, error, request, handler,
                   calls, response>>

\* runAxe(url) resolves with axe's results or rejects
AxeSettles ==
    /\ axeResults.status = "pending"
    /\ \/ \E v \in AxeValues : axeResults' = Fulfilled(v)
       \/ \E r \in Reasons : axeResults' = Rejected(NoAxeValue, r)
    /\ UNCHANGED <<url, isLoading, results, error, request, handler,
                   pa11yResults, calls, response>>

\* pa11y(url, ...) resolves with its results or rejects
Pa11ySettles ==
    /\ pa11yResults.status = "pending"
    /\ \/ \E v \in Pa11yValues : pa11yResults' = Fulfilled(v)
       \/ \E r \in Reasons : pa11yResults' = Rejected(NoPa11yValue, r)
    /\ UNCHANGED <<url, isLoading, results, error, request, handler,
                   axeResults, calls, response>>

\* a mutant of Respond: Promise.all in place of Promise.allSettled, so that
\* one rejection fails the whole request
RespondAllOrNothing ==
    /\ handler.pc = "awaiting"
    /\ Settled(axeResults) /\ Settled(pa11yResults)
    /\ response' =
         IF axeResults.status = "rejected" \/ pa11yResults.status = "rejected"
         THEN ErrorResponse(handler.fromPage, 500, "Failed to run accessibility test")
         ELSE OkResponse(handler.fromPage, ProcessedAxe(axeResults),
                         ProcessedPa11y(pa11yResults))
    /\ handler' = IdleHandler
    /\ UNCHANGED <<url, isLoading, results, error, request,
                   axeResults, pa11yResults, calls>>

\* the handler after its await: processedResults, summary, res.json
Respond ==
    /\ handler.pc = "awaiting"
    /\ Settled(axeResults) /\ Settled(pa11yResults)
    /\ response' = OkResponse(handler.fromPage, ProcessedAxe(axeResults),
                              ProcessedPa11y(pa11yResults))
    /\ handler' = IdleHandler
    /\ UNCHANGED <<url, isLoading, results, error, request,
                   axeResults, pa11yResults, calls>>

----------------------------------------------------------------------------
(* Page: handleSubmit and performAccessibilityTest *)

\* a mutant of SeverityOf: warning and notice change places
SeverityOfSwapped(type) ==
    IF type = "error" THEN "critical"
    ELSE IF type = "notice" THEN "serious"
    ELSE "moderate"

\* the severity the page gives a pa11y issue type
SeverityOf(type) ==
    IF type = "error" THEN "critical"
    ELSE IF type = "warning" THEN "serious"
    ELSE "moderate"

\* the violation the page makes of one pa11y issue
Normalize(issue) ==
    [id |-> issue.code, description |-> issue.message,
     impact |-> SeverityOf(issue.type),
     nodes |-> <<Node(issue.selector, issue.context)>>]

\* data.pa11y.issues.map(...)
NormalizeAll(issues) == [i \in 1..Len(issues) |-> Normalize(issues[i])]

\* a mutant of MergeViolations: pa11y's issues first
MergeViolationsBFirst(axe, pa11y) == NormalizeAll(pa11y.issues) \o axe.violations

\* formattedResults.violations
MergeViolations(axe, pa11y) == axe.violations \o NormalizeAll(pa11y.issues)

\* formattedResults.passes: data.pa11y.passes || [] after axe's
MergePasses(axe, pa11y) ==
    axe.passes \o (IF pa11y.hasPasses THEN pa11y.passes ELSE <<>>)

\* formattedResults
FormatResults(data) ==
    [present |-> TRUE,
     violations |-> MergeViolations(data.axe, data.pa11y),
     passes |-> MergePasses(data.axe, data.pa11y),
     summary |-> data.summary]

NoResults == [present |-> FALSE, violations |-> <<>>, passes |-> <<>>,
              summary |-> NoSummary]

\* the count the page shows in a severity box: results.summary?.[s] || 0
SummaryShown(summary, s) == IF s \in DOMAIN summary THEN summary[s] ELSE 0

\* response.ok
Ok(status) == status >= 200 /\ status <= 299

SubmitError == "Failed to test the website. Please check the URL and try again."

\* no scan is outstanding anywhere: the model follows one request at a time
Quiet == ~request.inFlight /\ handler.pc = "idle" /\ ~response.inFlight

\* a mutant of HandleSubmit: the error banner is not cleared
HandleSubmitKeepsBanner(u) ==
    /\ Quiet
    /\ ~isLoading
    /\ url' = u
    /\ IF u = <<>>
       THEN UNCHANGED <<isLoading, results, error, request>>
       ELSE /\ isLoading' = TRUE
            /\ error' = error
            /\ results' = NoResults
            /\ request' = [inFlight |-> TRUE, fromPage |-> TRUE,
                           body |-> [hasUrl |-> TRUE, url |-> u]]
    /\ UNCHANGED <<handler, axeResults, pa11yResults, calls, response>>

\* the user types u into the form and submits it: onChange, then
\* handleSubmit and performAccessibilityTest up to the fetch
HandleSubmit(u) ==
    /\ Quiet
    /\ ~isLoading
    /\ url' = u
    /\ IF u = <<>>
       THEN UNCHANGED <<isLoading, results, error, request>>
       ELSE /\ isLoading' = TRUE
            /\ error' = ""
            /\ results' = NoResults
            /\ request' = [inFlight |-> TRUE, fromPage |-> TRUE,
                           body |-> [hasUrl |-> TRUE, url |-> u]]
    /\ UNCHANGED <<handler, axeResults, pa11yResults, calls, response>>

\* a request that does not come from the page, with a body that handleSubmit
\* never sends: no url, or an empty one
PostTest(body) ==
    /\ Quiet
    /\ Falsy(body)
    /\ request' = [inFlight |-> TRUE, fromPage |-> FALSE, body |-> body]
    /\ UNCHANGED <<url, isLoading, results, error, handler,
                   axeResults, pa11yResults, calls, response>>

\* the rest of performAccessibilityTest and of handleSubmit, on the response
ReceiveResponse ==
    /\ response.inFlight
    /\ response' = NoResponse
    /\ IF ~response.fromPage
       THEN UNCHANGED <<isLoading, results, error>>
       ELSE /\ isLoading' = FALSE
            /\ IF Ok(response.status)
               THEN /\ results' = FormatResults(response)
                    /\ UNCHANGED error
               ELSE /\ error' = SubmitError
                    /\ UNCHANGED results
    /\ axeResults' = IdleTask(NoAxeValue)
    /\ pa11yResults' = IdleTask(NoPa11yValue)
    /\ UNCHANGED <<url, request, handler, calls>>

\* the fetch rejects: the request never reaches the server
FetchFails ==
    /\ request.inFlight
    /\ request.fromPage
    /\ request' = NoRequest
    /\ isLoading' = FALSE
    /\ error' = SubmitError
    /\ UNCHANGED <<url, results, handler, axeResults, pa11yResults, calls, response>>

----------------------------------------------------------------------------
(* The scan pipeline *)

InitScan ==
    /\ url = <<>>
    /\ isLoading = FALSE
    /\ results = NoResults
    /\ error = ""
    /\ request = NoRequest
    /\ handler = IdleHandler
    /\ axeResults = IdleTask(NoAxeValue)
    /\ pa11yResults = IdleTask(NoPa11yValue)
    /\ calls = [axe |-> 0, pa11y |-> 0]
    /\ response = NoResponse

NextScan ==
    \/ \E u \in UrlStrings : HandleSubmit(u)
    \/ \E b \in Bodies : PostTest(b)
    \/ ReceiveTest
    \/ AxeSettles
    \/ Pa11ySettles
    \/ Respond
    \/ ReceiveResponse
    \/ FetchFails

----------------------------------------------------------------------------
(* Cache keys and the state maps of the page *)

PrefixLen == 20

Min(a, b) == IF a < b THEN a ELSE b

\* String.prototype.substring(0, n)
Substring0(s, n) == SubSeq(s, 1, Min(n, Len(s)))

DigitChar(d) ==
    CASE d = 0 -> "0" [] d = 1 -> "1" [] d = 2 -> "2" [] d = 3 -> "3"
      [] d = 4 -> "4" [] d = 5 -> "5" [] d = 6 -> "6" [] d = 7 -> "7"
      [] d = 8 -> "8" [] OTHER -> "9"

RECURSIVE Decimal(_)
\* `${n}` for a non-negative integer n
Decimal(n) == IF n < 10 THEN <<DigitChar(n)>>
              ELSE Decimal(n \div 10) \o <<DigitChar(n % 10)>>

\* getAISolution's solutionKey: `${issue}-${description.substring(0, 20)}`
StreamKey(issue, description) == <<issue, "-">> \o Substring0(description, PrefixLen)

\* handleGetSolution's and the render's solutionKey: `${violation.id}-${nodeIndex}`
NodeKey(id, nodeIndex) == <<id, "-">> \o Decimal(nodeIndex)

EmptyMap == [k \in {} |-> k]

\* { ...prev, [k]: v }
Put(m, k, v) == [x \in DOMAIN m \cup {k} |-> IF x = k THEN v ELSE m[x]]

\* solutions[k] is truthy: present and not the empty string
HasSolution(k) == k \in DOMAIN solutions /\ solutions[k] # <<>>

\* loadingSolutions[k] is truthy
IsLoadingSolution(k) == k \in DOMAIN loadingSolutions /\ loadingSolutions[k]

\* the nodes the page renders for a violation: violation.nodes || [violation].
\* A violation may come without the field nodes; an empty list is truthy.
RenderedNodes(violation) ==
    IF "nodes" \in DOMAIN violation THEN violation.nodes ELSE <<violation>>

\* the (violation, node) pairs the report renders a solution button for:
\* (violation.nodes || [violation]).map((node, nodeIndex) => ...)
Targets(r) ==
    {<<vi, ni>> : vi \in 1..Len(r.violations), ni \in 0..1} \cap
    {t \in (1..Len(r.violations)) \X (0..1) :
        t[2] < Len(RenderedNodes(r.violations[t[1]]))}

ViolationOf(t) == results.violations[t[1]]
K1(t) == StreamKey(ViolationOf(t).id, ViolationOf(t).description)
K2(t) == NodeKey(ViolationOf(t).id, t[2])

\* violation.nodes?.[nodeIndex]?.html || violation.context, as the template
\* literal of the prompt prints it
HtmlOf(violation, nodeIndex) ==
    IF /\ "nodes" \in DOMAIN violation
       /\ nodeIndex < Len(violation.nodes)
       /\ violation.nodes[nodeIndex + 1].html # ""
    THEN violation.nodes[nodeIndex + 1].html
    ELSE IF "context" \in DOMAIN violation THEN violation.context
    ELSE "undefined"

\* the three values the prompt embeds: issue, description and the html
PromptOf(t) ==
    [issue |-> ViolationOf(t).id, description |-> ViolationOf(t).description,
     html |-> HtmlOf(ViolationOf(t), t[2])]

----------------------------------------------------------------------------
(* Remediation client: getAISolution under handleGetSolution *)

Placeholder == <<"No response generated">>

\* a chunk of the stream: chunk.choices[0]?.delta?.content may be absent
Chunks == {[hasContent |-> FALSE, content |-> <<>>],
           [hasContent |-> TRUE, content |-> <<"a">>],
           [hasContent |-> TRUE, content |-> <<"b">>]}

\* a non-streamed response: response.choices[0]?.message?.content may be
\* absent or empty
Replies == {[hasContent |-> FALSE, content |-> <<>>],
            [hasContent |-> TRUE, content |-> <<>>],
            [hasContent |-> TRUE, content |-> <<"c">>]}

NoReply == [hasContent |-> FALSE, content |-> <<>>]

\* x?.content || fallback
ContentOr(x, fallback) ==
    IF x.hasContent /\ x.content # <<>> THEN x.content ELSE fallback

\* a mutant of Accumulate: the chunk replaces the buffer
AccumulateOverwrite(buffer, content) == content

\* streamedContent += content
Accumulate(buffer, content) == buffer \o content

\* a mutant of FallbackContent: the streamed buffer is kept in front
FallbackContentKeepsPartial(buffer, reply) == buffer \o ContentOr(reply, Placeholder)

\* the fallback's content, which owes nothing to the streamed buffer
FallbackContent(buffer, reply) == ContentOr(reply, Placeholder)

\* the states of one call
Started(t) ==
    [pc |-> "fetchingKey", path |-> "none", prompt |-> PromptOf(t), sent |-> <<>>,
     streamedContent |-> <<>>, chunks |-> <<>>, observed |-> <<>>, reply |-> NoReply,
     failure |-> <<>>]

\* a call that has ended keeps, for the record, the way it took, the buffer
\* it had streamed, the non-streamed reply it got and (Throw) the message of
\* the error that ended it
Ended(t, pc, path, reply, buffer) ==
    [pc |-> pc, path |-> path, prompt |-> PromptOf(t), sent |-> <<>>,
     streamedContent |-> buffer, chunks |-> <<>>, observed |-> <<>>, reply |-> reply,
     failure |-> <<>>]

InFlight(t) == t \in DOMAIN req /\ req[t].pc \notin {"returned", "failed"}

\* a click on "Get AI Solution" of target t: handleGetSolution up to the
\* fetch of the key.  The button is rendered while solutions[key] is falsy
\* and is disabled while loadingSolutions[key] is set.
HandleGetSolution(t) ==
    /\ results.present
    /\ t \in Targets(results)
    /\ ~InFlight(t)
    /\ ~HasSolution(K2(t))
    /\ ~IsLoadingSolution(K2(t))
    /\ loadingSolutions' = Put(loadingSolutions, K2(t), TRUE)
    /\ req' = Put(req, t, Started(t))
    /\ UNCHANGED <<groqKey, solutions>>

\* a mutant of Return: the flag is left set
ReturnKeepsFlag(t, v, path, reply, sols) ==
    /\ solutions' = Put(sols, K2(t), v)
    /\ loadingSolutions' = loadingSolutions
    /\ req' = Put(req, t, Ended(t, "returned", path, reply, req[t].streamedContent))

\* getAISolution returns v: handleGetSolution stores it and clears the flag
Return(t, v, path, reply, sols) ==
    /\ solutions' = Put(sols, K2(t), v)
    /\ loadingSolutions' = Put(loadingSolutions, K2(t), FALSE)
    /\ req' = Put(req, t, Ended(t, "returned", path, reply, req[t].streamedContent))

\* a mutant of ErrorText: the message of the error is left out
ErrorTextGeneric(message) ==
    <<"Error getting solution: ", "Failed to get AI solution: ">>

\* the text handleGetSolution stores for an error of getAISolution, which
\* wraps the message of the error it caught
ErrorText(message) ==
    <<"Error getting solution: ", "Failed to get AI solution: ">> \o message

\* getAISolution throws: handleGetSolution stores the error text
Throw(t, message) ==
    /\ solutions' = Put(solutions, K2(t), ErrorText(message))
    /\ loadingSolutions' = Put(loadingSolutions, K2(t), FALSE)
    /\ req' = Put(req, t, [Ended(t, "failed", req[t].path, NoReply, <<>>)
                            EXCEPT !.failure = message])

StreamRequest(t) == [stream |-> TRUE, prompt |-> req[t].prompt]
PlainRequest(t) == [stream |-> FALSE, prompt |-> req[t].prompt]

\* GET /api/groq-key on the server: 500 without GROQ_API_KEY, the key with it
GroqKeyResponse(apiKey) ==
    IF apiKey = <<>>
    THEN [ok |-> FALSE, status |-> "500", apiKey |-> <<>>]
    ELSE [ok |-> TRUE, status |-> "200", apiKey |-> apiKey]

\* a mutant of CredentialFailure: the answer is not looked at
CredentialFailureIgnored(keyResponse) == <<>>

\* the message of the error getAISolution throws on the answer of
\* /api/groq-key, <<>> when it throws none
CredentialFailure(keyResponse) ==
    IF ~keyResponse.ok THEN <<"Failed to get Groq API key: ", keyResponse.status>>
    ELSE IF keyResponse.apiKey = <<>> THEN <<"No Groq API key returned from backend">>
    ELSE <<>>

\* GET /api/groq-key answers, or the fetch rejects; with a key the streamed
\* request is sent
KeyArrives(t) ==
    /\ InFlight(t) /\ req[t].pc = "fetchingKey"
    /\ LET keyResponse == GroqKeyResponse(groqKey)
       IN \/ /\ CredentialFailure(keyResponse) = <<>>
             /\ req' = Put(req, t, [req[t] EXCEPT !.pc = "openingStream",
                                                  !.path = "stream",
                                                  !.sent = <<StreamRequest(t)>>])
             /\ UNCHANGED <<solutions, loadingSolutions>>
          \/ /\ CredentialFailure(keyResponse) # <<>>
             /\ Throw(t, CredentialFailure(keyResponse))
          \/ Throw(t, <<"Failed to fetch">>)
    /\ UNCHANGED groqKey

\* the streamed create() resolves with the stream
StreamOpens(t) ==
    /\ InFlight(t) /\ req[t].pc = "openingStream"
    /\ req' = Put(req, t, [req[t] EXCEPT !.pc = "streaming"])
    /\ UNCHANGED <<groqKey, solutions, loadingSolutions>>

\* one turn of the for-await loop
StreamChunk(t, c) ==
    /\ InFlight(t) /\ req[t].pc = "streaming"
    /\ Len(req[t].chunks) < MaxChunks
    /\ LET content == ContentOr(c, <<>>)
           buffer == Accumulate(req[t].streamedContent, content)
       IN /\ solutions' = Put(solutions, K1(t), buffer)
          /\ req' = Put(req, t, [req[t] EXCEPT
                         !.streamedContent = buffer,
                         !.chunks = Append(@, content),
                         !.observed = Append(@, solutions'[K1(t)])])
    /\ UNCHANGED <<groqKey, loadingSolutions>>

\* the stream ends: return streamedContent
StreamEnds(t) ==
    /\ InFlight(t) /\ req[t].pc = "streaming"
    /\ Return(t, req[t].streamedContent, "stream", NoReply, solutions)
    /\ UNCHANGED groqKey

\* the streamed create() rejects, or the stream throws in the loop: the
\* non-streamed request is sent
StreamFails(t) ==
    /\ InFlight(t) /\ req[t].pc \in {"openingStream", "streaming"}
    /\ req' = Put(req, t, [req[t] EXCEPT !.pc = "fallback", !.path = "fallback",
                                         !.sent = Append(@, PlainRequest(t))])
    /\ UNCHANGED <<groqKey, solutions, loadingSolutions>>

\* the non-streamed create() resolves: content is stored and returned
FallbackArrives(t, reply) ==
    /\ InFlight(t) /\ req[t].pc = "fallback"
    /\ LET content == FallbackContent(req[t].streamedContent, reply)
       IN Return(t, content, "fallback", reply, Put(solutions, K1(t), content))
    /\ UNCHANGED groqKey

\* what the non-streamed create() rejects with
FallbackErrors == {<<"Connection error.">>, <<"429 ", "Rate limit reached">>}

\* the non-streamed create() rejects
FallbackFails(t, message) ==
    /\ InFlight(t) /\ req[t].pc = "fallback"
    /\ Throw(t, message)
    /\ UNCHANGED groqKey

----------------------------------------------------------------------------
(* Reports for the remediation client, made by the scan pipeline *)

LongDescX == [i \in 1..(PrefixLen + 1) |-> IF i <= PrefixLen THEN "a" ELSE "x"]
LongDescY == [i \in 1..(PrefixLen + 1) |-> IF i <= PrefixLen THEN "a" ELSE "y"]

ReportOf(axe, pa11y) ==
    FormatResults(OkResponse(TRUE, ProcessedAxe(Fulfilled(axe)),
                             ProcessedPa11y(Fulfilled(pa11y))))

\* one violation of axe with two nodes: two targets, one stream key
TwoNodes ==
    ReportOf([violations |-> <<[id |-> "image-alt", description |-> LongDescX,
                                impact |-> "critical",
                                nodes |-> <<Node("img.a", "<img a>"),
                                            Node("img.b", "<img b>")>>]>>,
              passes |-> <<>>],
             NoPa11yValue)

\* two issues of pa11y with one code, their messages alike in the first 20
\* characters: two targets, one node key
SameCode ==
    ReportOf(NoAxeValue,
             [issues |-> <<[code |-> "H37", message |-> LongDescX, type |-> "error",
                            selector |-> "#a", context |-> "<img id=a>"],
                           [code |-> "H37", message |-> LongDescY, type |-> "error",
                            selector |-> "#b", context |-> "<img id=b>"]>>,
              hasPasses |-> FALSE, passes |-> <<PassB>>])

\* a violation whose description is "0", so that its stream key is its node
\* key, and an unrelated issue
KeyClash ==
    ReportOf([violations |-> <<[id |-> "region", description |-> <<"0">>,
                                impact |-> "moderate",
                                nodes |-> <<Node("div", "<div>")>>]>>,
              passes |-> <<>>],
             [issues |-> <<[code |-> "H25", message |-> <<"n">>, type |-> "notice",
                            selector |-> "#t", context |-> "<title>"]>>,
              hasPasses |-> FALSE, passes |-> <<PassB>>])

\* two issues of pa11y with one code and unlike messages: two targets that
\* differ in the description, one node key
OtherText ==
    ReportOf(NoAxeValue,
             [issues |-> <<[code |-> "H37", message |-> <<"p">>, type |-> "error",
                            selector |-> "#a", context |-> "<img id=a>"],
                           [code |-> "H37", message |-> <<"q">>, type |-> "error",
                            selector |-> "#b", context |-> "<img id=b>"]>>,
              hasPasses |-> FALSE, passes |-> <<PassB>>])

\* a violation that comes without the field nodes, and one whose list of
\* nodes is empty
OddNodes ==
    ReportOf([violations |-> <<[id |-> "bypass", description |-> <<"d">>,
                                impact |-> "serious"],
                               [id |-> "list", description |-> <<"e">>,
                                impact |-> "minor", nodes |-> <<>>]>>,
              passes |-> <<>>],
             NoPa11yValue)

SampleReports == {TwoNodes, SameCode, KeyClash, OtherText, OddNodes}

----------------------------------------------------------------------------
(* The audience table: getTargetAudience, called by the render *)

audienceMap ==
    ("color-contrast" :> <<"Visual impairments", "Low vision", "Color blindness">>) @@
    ("image-alt" :> <<"Blind users", "Screen reader users", "Low bandwidth users">>) @@
    ("label" :> <<"Screen reader users", "Keyboard users", "Cognitive disabilities">>) @@
    ("heading-order" :>
        <<"Screen reader users", "Cognitive disabilities", "Navigation difficulties">>) @@
    ("link-name" :>
        <<"Screen reader users", "Cognitive disabilities", "Motor disabilities">>) @@
    ("button-name" :>
        <<"Screen reader users", "Voice control users", "Cognitive disabilities">>) @@
    ("aria-required-attr" :> <<"Screen reader users", "Assistive technology users">>) @@
    ("keyboard-navigation" :>
        <<"Motor disabilities", "Keyboard-only users", "Screen reader users">>) @@
    ("focus-management" :>
        <<"Keyboard users", "Motor disabilities", "Cognitive disabilities">>) @@
    ("landmark-roles" :>
        <<"Screen reader users", "Navigation difficulties", "Cognitive disabilities">>) @@
    ("document-title" :>
        <<"Screen reader users", "Search engine users", "Cognitive disabilities">>) @@
    ("html-has-lang" :> <<"Screen reader users", "Translation software users">>) @@
    ("bypass" :> <<"Keyboard users", "Screen reader users", "Motor disabilities">>) @@
    ("page-has-heading-one" :>
        <<"Screen reader users", "SEO", "Cognitive disabilities">>) @@
    ("list" :> <<"Screen reader users", "Cognitive disabilities">>) @@
    ("definition-list" :> <<"Screen reader users", "Cognitive disabilities">>) @@
    ("dlitem" :> <<"Screen reader users", "Cognitive disabilities">>) @@
    ("listitem" :> <<"Screen reader users", "Cognitive disabilities">>) @@
    ("meta-refresh" :>
        <<"Cognitive disabilities", "Motor disabilities", "Seizure disorders">>) @@
    ("meta-viewport" :> <<"Mobile users", "Zoom users", "Low vision users">>) @@
    ("region" :> <<"Screen reader users", "Keyboard navigation users">>) @@
    ("skip-link" :> <<"Keyboard users", "Screen reader users">>) @@
    ("tabindex" :> <<"Keyboard users", "Screen reader users">>) @@
    ("valid-lang" :> <<"Screen reader users", "Translation software users">>)

\* undefined
NoAudience == [present |-> FALSE, labels |-> <<>>]

\* a mutant of getTargetAudience: an id is answered once, and never again
getTargetAudienceOnce(issue) ==
    IF issue \in DOMAIN audienceMap
       /\ \A i \in 1..Len(lookups) : lookups[i].issue # issue
    THEN [present |-> TRUE, labels |-> audienceMap[issue]]
    ELSE NoAudience

\* audienceMap[issue], for the ids a scanner reports
getTargetAudience(issue) ==
    IF issue \in DOMAIN audienceMap
    THEN [present |-> TRUE, labels |-> audienceMap[issue]]
    ELSE NoAudience

\* rule ids and codes of the scanners that the table does not have
OtherIds == {"H37", "frame-title", "duplicate-id"}

\* results of axe with one violation with the given id
AxeWith(id) ==
    [violations |-> <<[id |-> id, description |-> <<"d">>,
                       impact |-> "serious",
                       nodes |-> <<Node("x", "<x>")>>]>>,
     passes |-> <<>>]

\* a report of one violation with the given id
ReportWith(id) == ReportOf(AxeWith(id), NoPa11yValue)

\* a render of the report: getTargetAudience(violation.id) for each node of
\* each violation; the calls are kept up to MaxLookups renders
Render ==
    /\ results.present
    /\ Len(lookups) < MaxLookups
    /\ \E vi \in 1..Len(results.violations) :
          LET issue == results.violations[vi].id
          IN lookups' = Append(lookups, [issue |-> issue,
                                         audience |-> getTargetAudience(issue)])
    /\ UNCHANGED <<scanVars, remVars, browserVars>>

----------------------------------------------------------------------------
(* The browser of the server: initBrowser and runAxe, and SIGINT *)

Scans == 1..MaxScans

\* let retries = 3
Retries == 3

NoBrowser == 0
NoPage == 0

\* the errors runAxe can end with; page.goto throws a new error at each attempt
NoError == [at |-> "none", attempt |-> 0]
ErrorAt(step) == [at |-> step, attempt |-> 0]
NavError(attempt) == [at |-> "goto", attempt |-> attempt]

IdleScan ==
    [pc |-> "idle", launch |-> NoBrowser, browser |-> NoBrowser, page |-> NoPage,
     retries |-> 0, attempts |-> 0, error |-> NoError]

\* no page, or a page that was closed
ClosedPage == [browser |-> NoBrowser, open |-> FALSE]

\* a mutant of Finish: the page is closed after a run that succeeded only
FinishKeepsPage(s, outcome, err) ==
    /\ scans' = [scans EXCEPT ![s] = [IdleScan EXCEPT !.pc = outcome, !.error = err]]
    /\ pages' = IF scans[s].page # NoPage /\ outcome = "done"
                THEN [pages EXCEPT ![scans[s].page] = ClosedPage]
                ELSE pages

\* runAxe ends: catch rethrows the error, finally closes the page if there
\* is one that is not closed, and the results are returned or the error
\* thrown; the local variables of the run are gone
Finish(s, outcome, err) ==
    /\ scans' = [scans EXCEPT ![s] = [IdleScan EXCEPT !.pc = outcome, !.error = err]]
    /\ pages' = IF scans[s].page # NoPage
                THEN [pages EXCEPT ![scans[s].page] = ClosedPage]
                ELSE pages

\* runAxe calls initBrowser: with no browser yet puppeteer.launch is called
\* and awaited (the instance it makes is named after the scan), else the
\* module's browser is returned and newPage is called
RunAxe(s) ==
    /\ running /\ scans[s].pc = "idle"
    /\ IF browser = NoBrowser
       THEN /\ launched' = launched + 1
            /\ scans' = [scans EXCEPT ![s] = [IdleScan EXCEPT !.pc = "launching",
                                                              !.launch = s]]
       ELSE /\ launched' = launched
            /\ scans' = [scans EXCEPT ![s] = [IdleScan EXCEPT !.pc = "newPage",
                                                              !.browser = browser]]
    /\ UNCHANGED <<browser, running, pages>>

\* puppeteer.launch resolves: browser = <the instance>; return browser; the
\* run calls browser.newPage()
LaunchResolves(s) ==
    /\ running /\ scans[s].pc = "launching"
    /\ browser' = scans[s].launch
    /\ scans' = [scans EXCEPT ![s] = [IdleScan EXCEPT !.pc = "newPage",
                                                      !.browser = browser']]
    /\ UNCHANGED <<launched, running, pages>>

\* puppeteer.launch rejects: runAxe throws, browser stays as it is
LaunchRejects(s) ==
    /\ running /\ scans[s].pc = "launching"
    /\ Finish(s, "failed", ErrorAt("launch"))
    /\ UNCHANGED <<browser, launched, running>>

\* browser.newPage() resolves with a new page of that browser, which the
\* run keeps in its local variable page
NewPageResolves(s) ==
    /\ running /\ scans[s].pc = "newPage"
    /\ pages' = [pages EXCEPT ![s] = [browser |-> scans[s].browser, open |-> TRUE]]
    /\ scans' = [scans EXCEPT ![s] = [@ EXCEPT !.pc = "configuring", !.page = s]]
    /\ UNCHANGED <<browser, launched, running>>

\* browser.newPage() rejects: page stays undefined
NewPageRejects(s) ==
    /\ running /\ scans[s].pc = "newPage"
    /\ Finish(s, "failed", ErrorAt("newPage"))
    /\ UNCHANGED <<browser, launched, running>>

\* the settings of the page are made; the loop starts with the first goto
ConfigResolves(s) ==
    /\ running /\ scans[s].pc = "configuring"
    /\ scans' = [scans EXCEPT ![s] = [@ EXCEPT !.pc = "navigating",
                                                !.retries = Retries,
                                                !.attempts = 1]]
    /\ UNCHANGED <<browser, launched, running, pages>>

\* a setting of the page rejects
ConfigRejects(s) ==
    /\ running /\ scans[s].pc = "configuring"
    /\ Finish(s, "failed", ErrorAt("config"))
    /\ UNCHANGED <<browser, launched, running>>

\* page.goto resolves: break
GotoResolves(s) ==
    /\ running /\ scans[s].pc = "navigating"
    /\ scans' = [scans EXCEPT ![s] = [@ EXCEPT !.pc = "analysing",
                                                !.retries = 0, !.attempts = 0]]
    /\ UNCHANGED <<browser, launched, running, pages>>

\* a mutant of RetriesLeft: none is left after a failure
RetriesLeftNone(retries) == 0

\* retries--
RetriesLeft(retries) == retries - 1

\* page.goto rejects: retries--; if (retries === 0) throw err; else the
\* delay of 2 s starts
GotoRejects(s) ==
    /\ running /\ scans[s].pc = "navigating"
    /\ LET err == NavError(scans[s].attempts)
           left == RetriesLeft(scans[s].retries)
       IN IF left = 0
          THEN Finish(s, "failed", err)
          ELSE /\ scans' = [scans EXCEPT ![s] = [@ EXCEPT !.pc = "waiting",
                                                          !.retries = left,
                                                          !.error = err]]
               /\ pages' = pages
    /\ UNCHANGED <<browser, launched, running>>

\* the delay is over: the loop calls page.goto again
GotoAgain(s) ==
    /\ running /\ scans[s].pc = "waiting"
    /\ scans' = [scans EXCEPT ![s] = [@ EXCEPT !.pc = "navigating",
                                                !.attempts = @ + 1,
                                                !.error = NoError]]
    /\ UNCHANGED <<browser, launched, running, pages>>

\* axe-core is injected and run, and resolves with its results
AnalysisResolves(s) ==
    /\ running /\ scans[s].pc = "analysing"
    /\ Finish(s, "done", NoError)
    /\ UNCHANGED <<browser, launched, running>>

\* the injection or the run rejects, or the run times out
AnalysisRejects(s) ==
    /\ running /\ scans[s].pc = "analysing"
    /\ Finish(s, "failed", ErrorAt("axe"))
    /\ UNCHANGED <<browser, launched, running>>

\* SIGINT: the module's browser, if any, is closed with its pages, and the
\* process exits
Sigint ==
    /\ running
    /\ running' = FALSE
    /\ browser' = NoBrowser
    /\ pages' = [i \in Scans |->
                    IF browser # NoBrowser /\ pages[i].browser = browser
                    THEN ClosedPage ELSE pages[i]]
    /\ UNCHANGED <<launched, scans>>

----------------------------------------------------------------------------
(* Specifications *)

InitRemediation ==
    /\ groqKey = <<>>
    /\ solutions = EmptyMap
    /\ loadingSolutions = EmptyMap
    /\ req = EmptyMap

NextRemediation ==
    \/ \E t \in Targets(results) : HandleGetSolution(t)
    \/ \E t \in DOMAIN req : KeyArrives(t)
    \/ \E t \in DOMAIN req : StreamOpens(t)
    \/ \E t \in DOMAIN req : \E c \in Chunks : StreamChunk(t, c)
    \/ \E t \in DOMAIN req : StreamEnds(t)
    \/ \E t \in DOMAIN req : StreamFails(t)
    \/ \E t \in DOMAIN req : \E r \in Replies : FallbackArrives(t, r)
    \/ \E t \in DOMAIN req : \E m \in FallbackErrors : FallbackFails(t, m)

InitBrowser ==
    /\ lookups = <<>>
    /\ browser = NoBrowser
    /\ launched = 0
    /\ scans = [s \in Scans |-> IdleScan]
    /\ running = TRUE
    /\ pages = [s \in Scans |-> ClosedPage]

\* the scan pipeline: one page, one server, no remediation requested
Init == InitScan /\ InitRemediation /\ InitBrowser
Next == NextScan /\ UNCHANGED <<remVars, lookups, browserVars>>
Spec == Init /\ [][Next]_vars

\* the remediation client over a report the page shows
InitShown ==
    /\ url = <<"h", ":">>
    /\ isLoading = FALSE
    /\ results \in SampleReports
    /\ error = ""
    /\ request = NoRequest
    /\ handler = IdleHandler
    /\ axeResults = IdleTask(NoAxeValue)
    /\ pa11yResults = IdleTask(NoPa11yValue)
    /\ calls = [axe |-> 1, pa11y |-> 1]
    /\ response = NoResponse
    /\ groqKey \in {<<>>, <<"gsk_key">>}
    /\ solutions = EmptyMap
    /\ loadingSolutions = EmptyMap
    /\ req = EmptyMap
    /\ InitBrowser

NextShown == NextRemediation /\ UNCHANGED <<scanVars, lookups, browserVars>>
SpecRemediation == InitShown /\ [][NextShown]_vars

\* the rule ids of the pages scanned again
RescanIds == {"image-alt", "list"}

\* the places of the targets in the sample reports
TargetSlots == (1..2) \X (0..1)

\* a step of the call for target t after its start
CallStep(t) ==
    /\ \/ KeyArrives(t)
       \/ StreamOpens(t)
       \/ \E c \in Chunks : StreamChunk(t, c)
       \/ StreamEnds(t)
       \/ StreamFails(t)
       \/ \E r \in Replies : FallbackArrives(t, r)
       \/ \E m \in FallbackErrors : FallbackFails(t, m)
    /\ UNCHANGED <<scanVars, lookups, browserVars>>

\* the remediation client over a report of one violation with one node
InitCall ==
    /\ url = <<"h", ":">>
    /\ isLoading = FALSE
    /\ results \in {ReportWith(id) : id \in RescanIds}
    /\ error = ""
    /\ request = NoRequest
    /\ handler = IdleHandler
    /\ axeResults = IdleTask(NoAxeValue)
    /\ pa11yResults = IdleTask(NoPa11yValue)
    /\ calls = [axe |-> 1, pa11y |-> 1]
    /\ response = NoResponse
    /\ groqKey \in {<<>>, <<"gsk_key">>}
    /\ solutions = EmptyMap
    /\ loadingSolutions = EmptyMap
    /\ req = EmptyMap
    /\ InitBrowser

\* every await of a call settles: the server answers the fetch of the key,
\* and the requests to the LLM endpoint resolve, reject or time out
SpecCallFair ==
    InitCall /\ [][NextShown]_vars /\ \A t \in TargetSlots : WF_vars(CallStep(t))

\* the renders of a report of one violation, between the steps of the
\* remediation client
InitRendered ==
    /\ url = <<"h", ":">>
    /\ isLoading = FALSE
    /\ results \in {ReportWith(id) : id \in DOMAIN audienceMap \cup OtherIds}
    /\ error = ""
    /\ request = NoRequest
    /\ handler = IdleHandler
    /\ axeResults = IdleTask(NoAxeValue)
    /\ pa11yResults = IdleTask(NoPa11yValue)
    /\ calls = [axe |-> 1, pa11y |-> 1]
    /\ response = NoResponse
    /\ groqKey \in {<<>>, <<"gsk_key">>}
    /\ solutions = EmptyMap
    /\ loadingSolutions = EmptyMap
    /\ req = EmptyMap
    /\ InitBrowser

NextRendered == Render \/ NextShown
SpecRender == InitRendered /\ [][NextRendered]_vars

\* the user submits the form again, while no call of the remediation client
\* is under way; the records of the calls that ended go with the old report
Resubmit(u) ==
    /\ ParsesAsURL(u)
    /\ \A t \in DOMAIN req : ~InFlight(t)
    /\ HandleSubmit(u)
    /\ req' = EmptyMap
    /\ UNCHANGED <<groqKey, solutions, loadingSolutions, lookups, browserVars>>

\* the server answers the request of the page: both scanners resolved, axe
\* with one violation
ScanAnswered(id) ==
    /\ request.inFlight /\ request.fromPage
    /\ request' = NoRequest
    /\ response' = OkResponse(TRUE, ProcessedAxe(Fulfilled(AxeWith(id))),
                              ProcessedPa11y(Fulfilled(NoPa11yValue)))
    /\ UNCHANGED <<url, isLoading, results, error, handler, axeResults,
                   pa11yResults, calls, remVars, lookups, browserVars>>

\* scans and calls of the remediation client, one after the other, on one page
InitRescan ==
    /\ url = <<"h", ":">>
    /\ isLoading = FALSE
    /\ results = ReportWith("image-alt")
    /\ error = ""
    /\ request = NoRequest
    /\ handler = IdleHandler
    /\ axeResults = IdleTask(NoAxeValue)
    /\ pa11yResults = IdleTask(NoPa11yValue)
    /\ calls = [axe |-> 1, pa11y |-> 1]
    /\ response = NoResponse
    /\ groqKey \in {<<>>, <<"gsk_key">>}
    /\ solutions = EmptyMap
    /\ loadingSolutions = EmptyMap
    /\ req = EmptyMap
    /\ InitBrowser

NextRescan ==
    \/ Resubmit(<<"h", ":">>)
    \/ \E id \in RescanIds : ScanAnswered(id)
    \/ ReceiveResponse /\ UNCHANGED <<remVars, lookups, browserVars>>
    \/ FetchFails /\ UNCHANGED <<remVars, lookups, browserVars>>
    \/ NextShown

SpecRescan == InitRescan /\ [][NextRescan]_vars

\* the server's browser under concurrent scan requests
ScanStep(s) ==
    /\ \/ LaunchResolves(s)
       \/ LaunchRejects(s)
       \/ NewPageResolves(s)
       \/ NewPageRejects(s)
       \/ ConfigResolves(s)
       \/ ConfigRejects(s)
       \/ GotoResolves(s)
       \/ GotoRejects(s)
       \/ GotoAgain(s)
       \/ AnalysisResolves(s)
       \/ AnalysisRejects(s)
    /\ UNCHANGED <<scanVars, remVars, lookups>>

NextBrowser ==
    \/ (\E s \in Scans : RunAxe(s)) /\ UNCHANGED <<scanVars, remVars, lookups>>
    \/ \E s \in Scans : ScanStep(s)
    \/ Sigint /\ UNCHANGED <<scanVars, remVars, lookups>>

SpecBrowser == Init /\ [][NextBrowser]_vars

\* every await of a run settles: the launch, newPage, goto and the axe run
\* have timeouts, and the delay between two attempts is 2 s
SpecBrowserFair == SpecBrowser /\ \A s \in Scans : WF_vars(ScanStep(s))

----------------------------------------------------------------------------
(* Claims about the scan pipeline *)

\* the server takes the request in this step (a failing fetch, the other way
\* a request in flight ends, clears isLoading)
Handling == request.inFlight /\ ~request'.inFlight /\ isLoading' = isLoading

\* the page consumes its response in this step
Consuming == response.inFlight /\ response.fromPage /\ ~response'.inFlight

\* bodies whose url is missing, empty or no absolute URL, listed one by one
NotAbsolute(body) ==
    \/ ~body.hasUrl
    \/ body.url \in {<<>>, <<"h">>, <<":">>, <<"h", "h">>, <<":", "h">>}

\* C1: a POST /api/test whose url is missing, empty or not an absolute URL is
\* answered 400 by the step that handles it, and that step invokes neither
\* runAxe nor pa11y and leaves the handler with nothing more to run.
C1_InvalidUrlRejected ==
    [][(Handling /\ NotAbsolute(request.body)) =>
        /\ response'.inFlight /\ response'.status = 400
        /\ calls'.axe = 0 /\ calls'.pa11y = 0
        /\ axeResults'.status # "pending" /\ pa11yResults'.status # "pending"
        /\ handler'.pc = "idle"]_vars

\* a non-empty string that is no absolute URL has just been rejected
C1_Witness ==
    /\ response.inFlight /\ response.status = 400
    /\ response.error = "Invalid URL format"
    /\ calls.axe = 0 /\ calls.pa11y = 0

OneFailed ==
    \/ axeResults.status = "rejected" /\ pa11yResults.status = "fulfilled"
    \/ axeResults.status = "fulfilled" /\ pa11yResults.status = "rejected"

\* the violations vs are the issues is, one for one and in order
SameAsIssues(vs, is) ==
    /\ Len(vs) = Len(is)
    /\ \A i \in 1..Len(is) :
        /\ vs[i].id = is[i].code
        /\ vs[i].description = is[i].message
        /\ vs[i].nodes = <<[target |-> is[i].selector, html |-> is[i].context]>>

\* C2: when exactly one scanner failed, the response is a 200 and the page
\* ends with a report and no error banner; the report's violations and passes
\* are those of the scanner that succeeded, all of them, in their order.
C2_PartialFailureReport ==
    [][(Consuming /\ OneFailed) =>
        /\ response.status = 200
        /\ results'.present /\ error' = "" /\ ~isLoading'
        /\ IF axeResults.status = "rejected"
           THEN /\ SameAsIssues(results'.violations, pa11yResults.value.issues)
                /\ results'.passes = (IF pa11yResults.value.hasPasses
                                      THEN pa11yResults.value.passes ELSE <<>>)
           ELSE /\ results'.violations = axeResults.value.violations
                /\ results'.passes = axeResults.value.passes]_vars

\* the page shows a report made of pa11y's two issues alone, axe having failed
C2_Witness ==
    /\ results.present /\ error = ""
    /\ Len(results.violations) = 2
    /\ results.violations[1].id = "H67" /\ results.violations[2].id = "H37"
    /\ results.passes = <<PassB>>

\* C3: when both scanners failed, the response is a 500, never a 200 with
\* empty findings.
C3_TotalFailureIs500 ==
    (/\ response.inFlight
     /\ axeResults.status = "rejected" /\ pa11yResults.status = "rejected")
    => response.status = 500

\* C4: the merged violations are as many as A's violations plus B's issues:
\* A's violations first, unchanged and in order, then one violation for each
\* issue of B, in B's order.
C4_MergeOrder ==
    [][(Consuming /\ Ok(response.status)) =>
        LET v == results'.violations
            a == response.axe.violations
            b == response.pa11y.issues
        IN /\ Len(v) = Len(a) + Len(b)
           /\ \A i \in 1..Len(a) : v[i] = a[i]
           /\ SameAsIssues(SubSeq(v, Len(a) + 1, Len(v)), b)]_vars

\* a report of two violations of A followed by two issues of B
C4_Witness ==
    /\ results.present
    /\ Len(results.violations) = 4
    /\ results.violations[1].id = "region"
    /\ results.violations[2].id = "image-alt"
    /\ results.violations[3].id = "H25"
    /\ results.violations[4].id = "H37"

\* the violations vs give issue i of is one node and the severity sev(type)
NormalizedBy(vs, is, Sev(_)) ==
    /\ Len(vs) = Len(is)
    /\ \A i \in 1..Len(is) :
        /\ Len(vs[i].nodes) = 1
        /\ vs[i].impact = Sev(is[i].type)

\* error to critical, warning to serious, notice to moderate and nothing else
\* to any of the three
SeverityClaimed(type) ==
    CASE type = "error"   -> "critical"
      [] type = "warning" -> "serious"
      [] type = "notice"  -> "moderate"
      [] OTHER            -> "unassigned"

\* error to critical, warning to serious, every other type to moderate
SeverityAmended(type) ==
    CASE type = "error"   -> "critical"
      [] type = "warning" -> "serious"
      [] OTHER            -> "moderate"

BPart(v, data) == SubSeq(v, Len(data.axe.violations) + 1, Len(v))

\* C5 as stated: every issue of B becomes one violation with one node, critical
\* iff its type is error, serious iff warning, moderate iff notice, and an
\* issue of another type gets none of these severities.
C5_SeverityAsClaimed ==
    [][(Consuming /\ Ok(response.status)) =>
        NormalizedBy(BPart(results'.violations, response),
                     response.pa11y.issues, SeverityClaimed)]_vars

\* C5 amended: every issue of B becomes one violation with one node, critical
\* iff its type is error, serious iff warning, and moderate iff its type is
\* anything else (notice or a type outside the three).
C5_SeverityMapping ==
    [][(Consuming /\ Ok(response.status)) =>
        NormalizedBy(BPart(results'.violations, response),
                     response.pa11y.issues, SeverityAmended)]_vars

\* a report whose B part is a warning, then an issue of an unknown type
C5_Witness ==
    /\ results.present
    /\ Len(results.violations) = 2
    /\ results.violations[1].id = "H67" /\ results.violations[1].impact = "serious"
    /\ results.violations[2].id = "X0" /\ results.violations[2].impact = "moderate"

\* C6: for each severity, the count the report shows is the number of merged
\* violations of that severity.
C6_SummaryMatchesViolations ==
    results.present =>
        \A s \in Severities :
            SummaryShown(results.summary, s) = CountIf(results.violations, "impact", s)

SummaryTotal(summary) ==
    SummaryShown(summary, "critical") + SummaryShown(summary, "serious")
    + SummaryShown(summary, "moderate") + SummaryShown(summary, "minor")

\* C7: the four counts add up to at most the number of merged violations, and
\* to exactly that number when every violation has one of the four severities.
C7_SummaryTotal ==
    results.present =>
        /\ SummaryTotal(results.summary) <= Len(results.violations)
        /\ (\A i \in 1..Len(results.violations) :
                results.violations[i].impact \in Severities)
           => SummaryTotal(results.summary) = Len(results.violations)

----------------------------------------------------------------------------
(* Claims about the remediation client *)

RECURSIVE Concat(_)
\* the strings of a sequence, joined
Concat(ss) == IF ss = <<>> THEN <<>> ELSE Head(ss) \o Concat(Tail(ss))

\* c1, c1c2, ..., c1..cn
PrefixesOf(cs) == [j \in 1..Len(cs) |-> Concat(SubSeq(cs, 1, j))]

Streaming(r, t) == t \in DOMAIN r /\ r[t].pc = "streaming"
Returned(r, t) == t \in DOMAIN r /\ r[t].pc = "returned"

\* C8: while a stream delivers chunks c1..cn, each chunk stores the next
\* prefix c1..cj under the stream key, so that the values stored are c1,
\* c1c2, ..., c1..cn in that order; when the stream ends without error the
\* value returned, which handleGetSolution stores, is c1..cn.
C8_StreamPrefixes ==
    [][\A t \in DOMAIN req' :
        /\ Streaming(req', t) => req'[t].observed = PrefixesOf(req'[t].chunks)
        /\ (Streaming(req, t) /\ Streaming(req', t) /\ req'[t] # req[t]) =>
              /\ Len(req'[t].chunks) = Len(req[t].chunks) + 1
              /\ solutions'[K1(t)] = Concat(req'[t].chunks)
        /\ (Streaming(req, t) /\ Returned(req', t)) =>
              /\ req[t].observed = PrefixesOf(req[t].chunks)
              /\ solutions'[K2(t)] = Concat(req[t].chunks)]_vars

\* a stream of the chunks "a" and "b" has ended and "ab" is stored
C8_Witness ==
    \E t \in DOMAIN req :
        /\ Returned(req, t) /\ req[t].path = "stream"
        /\ K1(t) \in DOMAIN solutions
        /\ solutions[K1(t)] = <<"a", "b">>
        /\ solutions[K2(t)] = <<"a", "b">>

\* the requests sent are the streamed one and then one non-streamed one, with
\* the same prompt
OneFallbackRequest(sent) ==
    /\ Len(sent) = 2
    /\ sent[1].stream /\ ~sent[2].stream
    /\ sent[2].prompt = sent[1].prompt

FellBack(t) == t \in DOMAIN req /\ req[t].pc = "fallback" /\ Returned(req', t)

\* C9 as stated: after a stream that failed, one non-streamed request with the
\* same messages has been sent, and the value returned and stored is the text
\* of its response.
C9_FallbackTextAsClaimed ==
    [][\A t \in DOMAIN req' :
        FellBack(t) =>
            /\ OneFallbackRequest(req[t].sent)
            /\ solutions'[K2(t)] = req'[t].reply.content
            /\ solutions'[K1(t)] = req'[t].reply.content]_vars

\* C9 amended: after a stream that failed, one non-streamed request with the
\* same messages has been sent, and the value returned and stored is the text
\* of its response, or the placeholder when the response has no text; nothing
\* of the streamed buffer is in it.
C9_FallbackText ==
    [][\A t \in DOMAIN req' :
        /\ req'[t].pc = "fallback" =>
              OneFallbackRequest(req'[t].sent)
        /\ FellBack(t) =>
              LET text == req'[t].reply.content
                  expected == IF req'[t].reply.hasContent /\ text # <<>>
                              THEN text ELSE Placeholder
              IN /\ OneFallbackRequest(req[t].sent)
                 /\ solutions'[K2(t)] = expected
                 /\ solutions'[K1(t)] = expected]_vars

\* a stream failed after the chunk "a", and the fallback's text "c" is stored
C9_Witness ==
    \E t \in DOMAIN req :
        /\ Returned(req, t) /\ req[t].path = "fallback"
        /\ req[t].streamedContent = <<"a">>
        /\ req[t].reply.content = <<"c">>
        /\ solutions[K2(t)] = <<"c">>

\* C10: a call that returns stores a value that is not empty.
C10_NeverEmpty ==
    [][\A t \in DOMAIN req' :
        (Returned(req', t) /\ ~Returned(req, t)) =>
            solutions'[K2(t)] # <<>>]_vars

Failed(r, t) == t \in DOMAIN r /\ r[t].pc = "failed"

\* the string s has the string m in it
Includes(s, m) ==
    \E i \in 0..(Len(s) - Len(m)) : SubSeq(s, i + 1, i + Len(m)) = m

\* C11: when the streamed request and then the non-streamed request have
\* failed, the step that ends the call stores under the node key of the
\* target an error text that has the message of the last failure in it and
\* clears the loading flag; two requests were sent and no third one is; the
\* call starts again only by a click on a button that is shown.
C11_BothPathsFail ==
    [][\A t \in DOMAIN req :
        /\ (req[t].pc = "fallback" /\ Failed(req', t)) =>
              /\ OneFallbackRequest(req[t].sent)
              /\ req'[t].failure \in FallbackErrors
              /\ Head(solutions'[K2(t)]) = "Error getting solution: "
              /\ Includes(solutions'[K2(t)], req'[t].failure)
              /\ loadingSolutions'[K2(t)] = FALSE
        /\ (Failed(req, t) /\ req'[t] # req[t]) =>
              /\ ~HasSolution(K2(t))
              /\ req'[t] = Started(t)
              /\ loadingSolutions'[K2(t)] = TRUE]_vars

\* a call has failed on both paths and its error text is stored
C11_Witness ==
    \E t \in DOMAIN req :
        /\ Failed(req, t) /\ req[t].path = "fallback"
        /\ req[t].failure = <<"Connection error.">>
        /\ solutions[K2(t)] = <<"Error getting solution: ",
                                "Failed to get AI solution: ", "Connection error.">>
        /\ ~IsLoadingSolution(K2(t))

\* this step calls getAISolution for target t
Invokes(t) ==
    /\ t \in DOMAIN req' /\ req'[t].pc = "fetchingKey"
    /\ t \notin DOMAIN req \/ req[t].pc # "fetchingKey"

\* C12: getAISolution is called at most once for a node key: a step calls it
\* for a target only when no call was made before for a target of that key.
C12_OneInvocationPerKey ==
    [][\A t \in DOMAIN req' :
        Invokes(t) => \A u \in DOMAIN req : K2(u) # K2(t)]_vars

\* the errors of a call that got no key
CredentialErrors == {<<"Failed to get Groq API key: ", "500">>, <<"Failed to fetch">>}

\* C13: while the server has no GROQ_API_KEY, no call ever has a request to
\* the LLM endpoint sent or pending, and the step that ends the fetch of the
\* key ends the call, with an error text naming the failure to get the key
\* stored under the node key; whatever the server has, a call that fails
\* while it fetches the key has sent no request.
C13_NoCredentialNoRequest ==
    [][\A t \in DOMAIN req' :
        /\ groqKey = <<>> =>
              /\ req'[t].sent = <<>>
              /\ req'[t].pc \in {"fetchingKey", "failed"}
        /\ (t \in DOMAIN req /\ req[t].pc = "fetchingKey" /\ Failed(req', t)) =>
              /\ req[t].sent = <<>>
              /\ req'[t].failure \in CredentialErrors
              /\ solutions'[K2(t)] =
                    <<"Error getting solution: ", "Failed to get AI solution: ">>
                    \o req'[t].failure
        /\ (t \in DOMAIN req /\ req[t].pc = "fetchingKey" /\ req'[t] # req[t]
              /\ groqKey = <<>>) =>
              Failed(req', t)]_vars

\* the server has no key, and a call has ended with the error of the 500
C13_Witness ==
    /\ groqKey = <<>>
    /\ \E t \in DOMAIN req :
          /\ Failed(req, t)
          /\ req[t].failure = <<"Failed to get Groq API key: ", "500">>
          /\ solutions[K2(t)] = <<"Error getting solution: ",
                                  "Failed to get AI solution: ",
                                  "Failed to get Groq API key: ", "500">>

\* C14: the entry a call writes is written by no other call: while a call
\* streams, the entry it has written holds its own buffer, and when it
\* returns the entry of its node holds the text of its own request.
C14_OwnEntryOnly ==
    [][\A t \in DOMAIN req' :
        /\ (Streaming(req', t) /\ req'[t].chunks # <<>>) =>
              solutions'[K1(t)] = req'[t].streamedContent
        /\ (Streaming(req, t) /\ Returned(req', t)) =>
              solutions'[K2(t)] = req[t].streamedContent
        /\ FellBack(t) =>
              solutions'[K2(t)] = ContentOr(req'[t].reply, Placeholder)]_vars

\* the three components the entries of a target are said to be keyed by
Triple(t) ==
    <<ViolationOf(t).id, Substring0(ViolationOf(t).description, PrefixLen), t[2]>>

\* the keys whose entry this step writes
Written == {k \in DOMAIN solutions' : k \notin DOMAIN solutions \/ solutions'[k] # solutions[k]}

\* C15: a step of a call writes no entry but the one the page reads for the
\* target of the call, and a target is shown a solution only when a call was
\* made for a target that agrees with it in rule id, description prefix and
\* node index.
C15_KeyedByTriple ==
    [][/\ \A k \in Written : \E t \in DOMAIN req : req'[t] # req[t] /\ k = K2(t)
       /\ \A t \in Targets(results) :
              (K2(t) \in DOMAIN solutions' /\ solutions'[K2(t)] # <<>>) =>
                  \E u \in DOMAIN req' : Triple(u) = Triple(t)]_vars

\* C16: while a call streams, after each chunk the entry the page reads for
\* the node of the call holds the buffer so far.
C16_PartialTextShown ==
    \A t \in DOMAIN req :
        (Streaming(req, t) /\ req[t].chunks # <<>>) =>
            /\ K2(t) \in DOMAIN solutions
            /\ solutions[K2(t)] = req[t].streamedContent

\* the entry of key k holds the text or the error text of a call that has
\* ended: k is the node key of a target and no stream key, so that
\* handleGetSolution alone writes it, at the end of a call
Complete(k) ==
    /\ k \in DOMAIN solutions
    /\ \E t \in Targets(results) : K2(t) = k
    /\ \A u \in Targets(results) : K1(u) # k

\* C17: no step changes an entry that holds the text or the error text of a
\* call that has ended.
C17_CompleteEntryKept ==
    [][\A k \in DOMAIN solutions : Complete(k) => solutions'[k] = solutions[k]]_vars

\* the targets the page renders for the violation at index vi
NodesShown(vi) == {t \in Targets(results) : t[1] = vi}

\* C18: every violation of the report shown has a node rendered, exactly one
\* when its list of nodes is missing or empty, and every call was made for a
\* node index within the nodes rendered.
C18_AtLeastOneNode ==
    results.present =>
        /\ \A vi \in 1..Len(results.violations) :
              /\ NodesShown(vi) # {}
              /\ ("nodes" \notin DOMAIN results.violations[vi]
                    \/ results.violations[vi].nodes = <<>>)
                 => NodesShown(vi) = {<<vi, 0>>}
        /\ \A t \in DOMAIN req : t \in NodesShown(t[1])

----------------------------------------------------------------------------
(* Claims about the audience table *)

\* the rule ids of the table, listed one by one
KnownRuleIds ==
    {"color-contrast", "image-alt", "label", "heading-order", "link-name",
     "button-name", "aria-required-attr", "keyboard-navigation",
     "focus-management", "landmark-roles", "document-title", "html-has-lang",
     "bypass", "page-has-heading-one", "list", "definition-list", "dlitem",
     "listitem", "meta-refresh", "meta-viewport", "region", "skip-link",
     "tabindex", "valid-lang"}

----------------------------------------------------------------------------
(* Claims about the browser of the server *)

\* the browsers that are launched or being launched
Launches ==
    {scans[s].launch : s \in {x \in Scans : scans[x].pc = "launching"}}
    \cup ({browser} \ {NoBrowser})

\* the browsers the runs under way have got
BrowsersUsed == {scans[s].browser : s \in Scans} \ {NoBrowser}

\* C20: at no time is there more than one browser launched or being
\* launched, and all runs that have a browser have the same one, which is
\* the one of the module while the server runs.
C20_LaunchedOnce ==
    /\ Cardinality(Launches) <= 1
    /\ Cardinality(BrowsersUsed) <= 1
    /\ running => BrowsersUsed \subseteq {browser}

----------------------------------------------------------------------------
(* Claims about the join of the scanners, the pages and the navigation *)

\* the server sends a response in this step
Responding == ~response.inFlight /\ response'.inFlight

\* C21: the step that sends a response finds neither scanner running, and
\* for a 200 both settled; the handler waits while a scanner runs; the step
\* in which one scanner rejects leaves the other as it is, and a scanner
\* that runs stays running or settles of its own.
C21_JoinNotRace ==
    [][/\ Responding =>
            /\ axeResults.status # "pending" /\ pa11yResults.status # "pending"
            /\ response'.status = 200 => Settled(axeResults) /\ Settled(pa11yResults)
       /\ (handler.pc = "awaiting"
            /\ (axeResults.status = "pending" \/ pa11yResults.status = "pending"))
          => ~Responding /\ handler' = handler
       /\ (axeResults.status = "pending" /\ axeResults'.status = "rejected")
          => pa11yResults' = pa11yResults
       /\ (pa11yResults.status = "pending" /\ pa11yResults'.status = "rejected")
          => axeResults' = axeResults]_vars

\* runAxe rejected, pa11y went on and resolved with two issues, and the 200
\* was sent after that
C21_Witness ==
    /\ response.inFlight /\ response.status = 200
    /\ axeResults.status = "rejected"
    /\ pa11yResults.status = "fulfilled"
    /\ Len(pa11yResults.value.issues) = 2
    /\ response.pa11y.issues = pa11yResults.value.issues

\* the run of scan s is under way, is over
Outstanding(sc, s) == sc[s].pc \notin {"idle", "done", "failed"}
HasPage(sc, s) == sc[s].pc \in {"configuring", "navigating", "waiting", "analysing"}

InLoop(sc, s) == sc[s].pc \in {"navigating", "waiting"}

\* C23: a run calls page.goto at most 3 times; a goto that resolves ends the
\* loop and starts the analysis, which starts in no other way and is never
\* followed by another goto; a goto that rejects is followed by the delay
\* and another goto when it was the first or second, and ends the run with
\* its own error when it was the third; a run that ends with the error of a
\* goto has called it 3 times; and a run in the loop leaves it (or the
\* server exits).
C23_RetryLoop ==
    /\ [][\A s \in Scans :
            /\ scans'[s].attempts <= Retries
            /\ (scans'[s].pc = "analysing" /\ scans[s].pc # "analysing")
               => scans[s].pc = "navigating"
            /\ scans[s].pc = "analysing" => ~InLoop(scans', s)
            /\ (scans[s].pc = "navigating" /\ scans'[s] # scans[s]) =>
                  \/ scans'[s].pc = "analysing"
                  \/ /\ scans[s].attempts < Retries
                     /\ scans'[s].pc = "waiting"
                     /\ scans'[s].attempts = scans[s].attempts
                  \/ /\ scans[s].attempts = Retries
                     /\ scans'[s].pc = "failed"
                     /\ scans'[s].error = NavError(Retries)
            /\ (scans[s].pc = "waiting" /\ scans'[s] # scans[s]) =>
                  /\ scans'[s].pc = "navigating"
                  /\ scans'[s].attempts = scans[s].attempts + 1
            /\ (scans'[s].pc = "failed" /\ scans'[s].error.at = "goto") =>
                  scans'[s].error.attempt = Retries]_vars
    /\ \A s \in Scans : InLoop(scans, s) ~> (~InLoop(scans, s) \/ ~running)

\* a run has failed at its third goto, and a run is analysing after a goto
\* that resolved
C23_Witness ==
    /\ \E s \in Scans : scans[s].pc = "failed" /\ scans[s].error = NavError(3)
    /\ \E s \in Scans : scans[s].pc = "analysing"

----------------------------------------------------------------------------
(* Claims about the page's report, banner and cache across scans *)

\* the page starts a scan, ends one, in this step
ScanStarts == ~isLoading /\ isLoading'
ScanFinishes == isLoading /\ ~isLoading'

\* C24: the step that starts a scan leaves no report and no error banner;
\* while the scan is outstanding there is neither; the step that ends it
\* leaves either the report made of a 2xx response and no banner, or the
\* banner and no report; so with no scan outstanding a report and a banner
\* are never both there.
C24_ReportOrBanner ==
    [][/\ ScanStarts => ~results'.present /\ error' = ""
       /\ isLoading' => ~results'.present /\ error' = ""
       /\ ScanFinishes =>
            /\ results'.present # (error' # "")
            /\ (Consuming /\ Ok(response.status)) =>
                  results' = FormatResults(response) /\ error' = ""
            /\ ~(Consuming /\ Ok(response.status)) =>
                  ~results'.present /\ error' = SubmitError
       /\ ~isLoading' => ~(results'.present /\ error' # "")]_vars

\* a scan of an absolute URL has ended with the banner and without a report
C24_Witness ==
    /\ ~isLoading /\ Quiet
    /\ ParsesAsURL(url)
    /\ error = SubmitError
    /\ ~results.present

\* a step of a scan: of handleSubmit, of the server or of the fetch
ScanMoves == scanVars' # scanVars

\* C25: a step of a scan changes no entry of the cache; and a node of the
\* report shown whose key has an entry from before the report, no call
\* having been made for the key since, is shown that entry and no button,
\* so that no call is made for it.
C25_CacheSurvivesScan ==
    [][/\ ScanMoves => solutions' = solutions /\ loadingSolutions' = loadingSolutions
       /\ \A t \in Targets(results) :
            (/\ K2(t) \in DOMAIN solutions
             /\ \A u \in DOMAIN req : K2(u) # K2(t))
            => /\ HasSolution(K2(t))
               /\ ~Invokes(t)]_vars

----------------------------------------------------------------------------
(* Claims about the loading flags *)

====
